---- MODULE Spec2Model ----
(***************************************************************************)
(* Readiness coordination of leptos_sync_ssr: the watch-channel backed     *)
(* Ready / CoReady states (src/src/ready.rs) and the signal-resource       *)
(* pairing built on them (src/src/signal.rs).                              *)
(*                                                                         *)
(* The watch channel holds an Option<bool>: None, Some(false), Some(true). *)
(* Tasks run on a multi-threaded executor, so every call below that is a   *)
(* separate synchronisation point in the source is a separate action.      *)
(***************************************************************************)
EXTENDS Naturals, FiniteSets, Sequences, TLC

\* ---- bounds -------------------------------------------------------------
MaxSlots == 2
MaxWriters == 2
MaxSubs == 2
MaxValue == 1
MaxObjects == 2
MaxComplete == 2

Slots == 1..MaxSlots
Writers == 1..MaxWriters
Subs == 1..MaxSubs
Values == 0..MaxValue

\* The value every pair is built with in tests/signal.rs: String::new().
DefaultValue == 0

\* Option<bool> carried by the watch channel.
Unset == "None"
Primed == "SomeFalse"
Completed == "SomeTrue"

VARIABLES
    \* the reactive owner inside which the pairs are constructed
    provided,      \* a CoReadyCoordinator has been provided as context
    panicked,      \* a constructor panicked for lack of one
    disposed,      \* the owner, with the pairs, the coordinator and the Ready, is gone
    outer,         \* Vec of the coordinator of an enclosing SyncSsrSignal
    \* CoReadyCoordinator.inner: the Vec<CoReady> behind the mutex
    registry,
    \* per slot (CoReady + SsrSignalResourceInner)
    mode,          \* "none" (not constructed), "std", "manual"
    flag,          \* value held by the slot's watch channel
    armed,         \* ReadyInner.manual_complete_armed
    txcount,       \* Sender handles of the slot's watch channel
    value,         \* the ArcRwSignal cell of the pair
    \* per write handle (SsrWriteSignal holding a ReadySender)
    wpc,           \* "free", "fresh", "held", "guard", "dropping", "dropped"
    wslot,
    \* per read accessor (resource fetcher future holding a CoReadySubscription)
    spc,           \* "free", "waiting", "resolved", "done", "dropped"
    sslot,
    unseen,        \* the receiver has not looked at the current channel version
    result,        \* the value the accessor returned
    \* CoReadyCoordinator::notify in progress
    npc,           \* "idle", "check", "send"
    nidx,          \* position in the Vec being iterated
    notified,      \* notify() has been called
    \* observations of the run (not program state)
    written,       \* values stored in the cell by notifying writes
    inner,         \* cell written through inner_write_only
    quiet,         \* cell written through a handle's try_write_untracked
    lapse,         \* a handle was acquired after notify() began, or completed
                   \* the slot before its first notifying write
    seen,          \* the cell value at the moment the accessor's wait was satisfied
    alone,         \* no handle had been acquired on the slot at that moment
    \* the non-coordinated Ready that SyncSsr provides as context
    rflag,         \* value held by its watch channel
    rpc,           \* "free", "subscribed", "suspended", "sleeping", "done", "dropped"
    rbacked,       \* ReadySubscription.inner is Some
    runseen,       \* the receiver has not looked at the current channel version
    rcalls,        \* Ready::complete() calls so far
    rtx            \* Sender handles of its watch channel

vars == <<provided, panicked, disposed, outer, registry, txcount, mode, flag, armed, value, wpc, wslot, spc, sslot, unseen,
          result, npc, nidx, notified, written, inner, quiet, lapse, seen, alone,
          rflag, rpc, rbacked, runseen, rcalls, rtx>>

slotVars == <<mode, flag, armed, value>>
writerVars == <<wpc, wslot>>
subVars == <<spc, sslot, unseen, result>>
notifyVars == <<npc, nidx, notified>>
obsVars == <<written, inner, quiet, lapse, seen, alone>>
readyVars == <<rflag, rpc, rbacked, runseen, rcalls, rtx>>
ctxVars == <<provided, panicked, disposed, outer>>
coVars == <<ctxVars, registry, txcount, slotVars, writerVars, subVars, notifyVars, obsVars>>

\* ---- the watch channel --------------------------------------------------

\* Write handles whose ReadySender (a clone of the channel Sender) is alive.
LiveTx == {"fresh", "held", "guard", "dropping"}

\* Variant: the receiver of a subscription dropped in mid-wait is never
\* released.
receiver_count_KeepsDropped(s) ==
    Cardinality({u \in Subs : sslot[u] = s /\ spc[u] \in {"waiting", "dropped"}})

\* Receivers are owned by subscriptions whose wait has not returned yet.
receiver_count(s) == Cardinality({u \in Subs : sslot[u] = s /\ spc[u] = "waiting"})

LiveSenders(s) == {w \in Writers : wslot[w] = s /\ wpc[w] \in LiveTx}

\* Variant: the receivers are counted where the senders should be.
sender_count_Receivers(s) == receiver_count(s)

\* Sender::sender_count: the number of Sender handles of the channel.
sender_count(s) == txcount[s]

\* Sender::send: rejected, and the value not stored, when no receiver exists.
SendStores(s) == receiver_count(s) > 0

\* Variant: the value is stored whether or not a receiver exists, as
\* Sender::send_replace would.
FlagAfterSend_Always(s, v) == [flag EXCEPT ![s] = v]

\* Variant: the slots of a coordinator share one channel.
FlagAfterSend_Shared(s, v) ==
    IF SendStores(s) THEN [b \in Slots |-> IF mode[b] # "none" THEN v ELSE flag[b]] ELSE flag

FlagAfterSend(s, v) == IF SendStores(s) THEN [flag EXCEPT ![s] = v] ELSE flag

\* A stored value is a new version for every receiver of the channel.
UnseenAfterSend(s) ==
    IF SendStores(s)
    THEN [u \in Subs |-> unseen[u] \/ (sslot[u] = s /\ spc[u] = "waiting")]
    ELSE unseen

\* Variant: completing a slot that is already completed is treated as an
\* error.
complete_AssertFirst(s) ==
    /\ flag[s] # Completed
    /\ flag' = FlagAfterSend(s, Completed)
    /\ unseen' = UnseenAfterSend(s)

\* Variant: the result of send is unwrapped, so completing a slot nobody
\* listens to panics instead of being ignored.
complete_Unwrap(s) ==
    /\ SendStores(s)
    /\ flag' = [flag EXCEPT ![s] = Completed]
    /\ unseen' = UnseenAfterSend(s)

\* ReadyInner::complete
complete(s) ==
    /\ flag' = FlagAfterSend(s, Completed)
    /\ unseen' = UnseenAfterSend(s)

\* Variant: the predicate accepts a primed slot without looking at the
\* sender count.
WaitPredicate_IgnoresSenders(s) ==
    \/ flag[s] = Completed
    \/ (mode[s] # "manual" /\ flag[s] = Primed)

\* Variant: the test for Some(false) is left out, so an unset flag counts
\* as primed.
WaitPredicate_UnsetCounts(s) ==
    \/ flag[s] = Completed
    \/ (mode[s] # "manual" /\ sender_count(s) = 1)

\* The closure handed to wait_for by CoReadySubscriptionInner::wait_inner.
WaitPredicate(s) ==
    \/ flag[s] = Completed
    \/ (mode[s] # "manual" /\ flag[s] = Primed /\ sender_count(s) = 1)

\* ---- who keeps a channel open -------------------------------------------

\* Variant: a subscription owns its receiver only, not the state it
\* subscribed to.
HoldsSlot_ReceiverOnly(u) == FALSE

\* `ready: self.clone()` in CoReady::subscribe and Ready::subscribe_inner:
\* the subscription owns a clone of the Arc around the state, hence of the
\* state's own Sender.
HoldsSlot(u) == u \in Subs

\* Subscriptions keeping the CoReady of slot s alive.
SlotHolders(s) ==
    {u \in Subs : sslot[u] = s /\ spc[u] = "waiting" /\ HoldsSlot(u)}

\* The subscription of u goes away: with the owner gone and u the last to
\* hold the CoReady, the CoReady's own Sender is dropped with it.
TxAfterLeave(u) ==
    IF disposed /\ SlotHolders(sslot[u]) = {u}
    THEN [txcount EXCEPT ![sslot[u]] = @ - 1]
    ELSE txcount

\* ---- construction -------------------------------------------------------

Created == {s \in Slots : mode[s] # "none"}

Acquired(s) == {w \in Writers : wpc[w] # "free" /\ wslot[w] = s}

\* Write handles and read accessors brought into being so far.
Objects ==
    Cardinality({w \in Writers : wpc[w] # "free"})
        + Cardinality({u \in Subs : spc[u] # "free"})

NotifyStarted == notified

\* The cell has been written without a notification.
Tainted(s) == inner[s] \/ quiet[s]

\* SyncSsrSignal creates the coordinator (an empty Vec) and provides it as
\* context to what it encloses.
SyncSsrSignal_provide ==
    /\ ~provided
    /\ ~panicked
    /\ ~disposed
    /\ provided' = TRUE
    /\ UNCHANGED <<readyVars, panicked, disposed, outer, registry, txcount, slotVars, writerVars, subVars, notifyVars,
                   obsVars>>

\* Variant: a missing coordinator is replaced by a fresh one instead of
\* being reported.
CoordinatorFound_OrDefault == TRUE

\* `use_context::<CoReadyCoordinator>()` is Some.
CoordinatorFound == provided

\* Variant: a coordinator that has already notified hands out slots that
\* are primed from the start.
InitialFlag_PrimedIfNotified == IF notified THEN Primed ELSE Unset

\* `channel(None)`: the value a coordinated slot starts with.
InitialFlag == Unset

\* SsrSignalResource::new / new_must_notify -> CoReady::new_with_options:
\* without a coordinator in context the constructor panics before anything
\* is built; with one, a channel holding None is created and registered
\* with the coordinator (mutex free).
SsrSignalResource_new(s, manual) ==
    /\ ~panicked
    /\ ~disposed
    /\ mode[s] = "none"
    /\ \A t \in Slots : t < s => mode[t] # "none"
    /\ npc = "idle"
    /\ IF CoordinatorFound
       THEN /\ mode' = [mode EXCEPT ![s] = IF manual THEN "manual" ELSE "std"]
            /\ flag' = [flag EXCEPT ![s] = InitialFlag]
            /\ value' = [value EXCEPT ![s] = DefaultValue]
            /\ registry' = Append(registry, s)
            /\ txcount' = [txcount EXCEPT ![s] = 1]
            /\ UNCHANGED panicked
       ELSE /\ panicked' = TRUE
            /\ UNCHANGED <<mode, flag, value, registry, txcount>>
    /\ UNCHANGED <<readyVars, provided, disposed, outer, armed, writerVars, subVars, notifyVars, obsVars>>

\* SsrSignalResource::new outside the Provider of the nested boundary:
\* expect_context finds the coordinator of the enclosing one and the state is
\* pushed on that coordinator's Vec.
SsrSignalResource_new_outer(s, manual) ==
    /\ ~panicked
    /\ ~disposed
    /\ mode[s] = "none"
    /\ \A t \in Slots : t < s => mode[t] # "none"
    /\ npc = "idle"
    /\ mode' = [mode EXCEPT ![s] = IF manual THEN "manual" ELSE "std"]
    /\ flag' = [flag EXCEPT ![s] = InitialFlag]
    /\ value' = [value EXCEPT ![s] = DefaultValue]
    /\ outer' = Append(outer, s)
    /\ txcount' = [txcount EXCEPT ![s] = 1]
    /\ UNCHANGED <<readyVars, provided, panicked, disposed, registry, armed, writerVars, subVars,
                   notifyVars, obsVars>>

\* ---- the read accessor --------------------------------------------------

\* The resource fetcher calls ready.subscribe(): a receiver that has yet to
\* look at the channel (wait_for always tests the value it finds first).
subscribe(u, s) ==
    /\ ~disposed
    /\ spc[u] = "free"
    /\ \A t \in Subs : t < u => spc[t] # "free"
    /\ mode[s] # "none"
    /\ spc' = [spc EXCEPT ![u] = "waiting"]
    /\ sslot' = [sslot EXCEPT ![u] = s]
    /\ unseen' = [unseen EXCEPT ![u] = TRUE]
    /\ UNCHANGED <<readyVars, ctxVars, registry, txcount, slotVars, writerVars, result, notifyVars, obsVars>>

\* One evaluation of the wait_for predicate: on the first poll, and again
\* whenever the channel value has been replaced since the last look.  When
\* it holds wait() returns, dropping the subscription and its receiver.
wait_inner(u) ==
    /\ spc[u] = "waiting"
    /\ unseen[u]
    /\ unseen' = [unseen EXCEPT ![u] = FALSE]
    /\ IF WaitPredicate(sslot[u])
       THEN /\ spc' = [spc EXCEPT ![u] = "resolved"]
            /\ seen' = [seen EXCEPT ![u] = value[sslot[u]]]
            /\ alone' = [alone EXCEPT ![u] = Acquired(sslot[u]) = {}]
            /\ txcount' = TxAfterLeave(u)
       ELSE UNCHANGED <<spc, seen, alone, txcount>>
    /\ UNCHANGED <<readyVars, ctxVars, registry, slotVars, writerVars, sslot, result, notifyVars,
                   written, inner, quiet, lapse>>

\* Variant: the fetcher returns the value the pair was built with instead
\* of reading the cell again.
FetcherValue_Initial(u) == DefaultValue

\* signal_read.try_get_untracked().unwrap_or(original): the Arc signal is
\* never disposed, so the cell is read afresh.
FetcherValue(u) == value[sslot[u]]

fetcher_read(u) ==
    /\ spc[u] = "resolved"
    /\ spc' = [spc EXCEPT ![u] = "done"]
    /\ result' = [result EXCEPT ![u] = FetcherValue(u)]
    /\ UNCHANGED <<readyVars, ctxVars, registry, txcount, slotVars, writerVars, sslot, unseen, notifyVars, obsVars>>

\* The future holding the subscription is dropped before its wait finished.
drop_subscription(u) ==
    /\ spc[u] = "waiting"
    /\ spc' = [spc EXCEPT ![u] = "dropped"]
    /\ unseen' = [unseen EXCEPT ![u] = FALSE]
    /\ txcount' = TxAfterLeave(u)
    /\ UNCHANGED <<readyVars, ctxVars, registry, slotVars, writerVars, sslot, result, notifyVars, obsVars>>

\* ---- the write handle ---------------------------------------------------

\* Variant: the ReadySender shares the CoReady's own Sender instead of
\* holding a clone of it.
TxAfterAcquire_Shared(s) == txcount

\* `ReadySender { inner: self.clone() }`: ReadyInner derives Clone, so the
\* new ReadySender holds a clone of the channel Sender.
TxAfterAcquire(s) == [txcount EXCEPT ![s] = @ + 1]

\* ReadyInner::to_ready_sender arms a manual-complete slot on first use.
ArmedAfterAcquire(s) == IF mode[s] = "manual" THEN [armed EXCEPT ![s] = TRUE] ELSE armed

\* Variant: acquiring a sender marks the outstanding writer in the flag
\* itself, taking the slot back to None.
write_only_ResetsFlag(w, s) ==
    /\ ~disposed
    /\ wpc[w] = "free"
    /\ \A x \in Writers : x < w => wpc[x] # "free"
    /\ mode[s] # "none"
    /\ wpc' = [wpc EXCEPT ![w] = "fresh"]
    /\ wslot' = [wslot EXCEPT ![w] = s]
    /\ armed' = ArmedAfterAcquire(s)
    /\ txcount' = TxAfterAcquire(s)
    /\ flag' = [flag EXCEPT ![s] = Unset]
    /\ lapse' = [lapse EXCEPT ![s] = @ \/ NotifyStarted]
    /\ UNCHANGED <<readyVars, ctxVars, registry, mode, value, subVars, notifyVars, written,
                   inner, quiet, seen, alone>>

\* SsrSignalResource::write_only: a clone of the write cell plus a freshly
\* acquired ReadySender.
write_only(w, s) ==
    /\ ~disposed
    /\ wpc[w] = "free"
    /\ \A x \in Writers : x < w => wpc[x] # "free"
    /\ mode[s] # "none"
    /\ wpc' = [wpc EXCEPT ![w] = "fresh"]
    /\ wslot' = [wslot EXCEPT ![w] = s]
    /\ armed' = ArmedAfterAcquire(s)
    /\ txcount' = TxAfterAcquire(s)
    /\ lapse' = [lapse EXCEPT ![s] = @ \/ NotifyStarted]
    /\ UNCHANGED <<readyVars, ctxVars, registry, mode, flag, value, subVars, notifyVars, written,
                   inner, quiet, seen, alone>>

\* Variant: the completion is broadcast when the guard is taken, before the
\* value has been stored in the cell.
try_write_BroadcastFirst(w, v) ==
    /\ wpc[w] \in {"fresh", "held"}
    /\ wpc' = [wpc EXCEPT ![w] = "guard"]
    /\ written' = [written EXCEPT ![wslot[w]] = @ \cup {v}]
    /\ complete(wslot[w])
    /\ UNCHANGED <<readyVars, ctxVars, registry, txcount, mode, armed, value, wslot, spc, sslot, result,
                   notifyVars, inner, quiet, lapse, seen, alone>>

\* set / update through Write::try_write: the value is stored and the inner
\* guard released; the WriteGuard still owes the call to its notifier.
try_write(w, v) ==
    /\ wpc[w] \in {"fresh", "held"}
    /\ wpc' = [wpc EXCEPT ![w] = "guard"]
    /\ value' = [value EXCEPT ![wslot[w]] = v]
    /\ written' = [written EXCEPT ![wslot[w]] = @ \cup {v}]
    /\ UNCHANGED <<readyVars, ctxVars, registry, txcount, mode, flag, armed, wslot, subVars, notifyVars,
                   inner, quiet, lapse, seen, alone>>

\* Variant: the notifier completes only a slot that was never signalled.
NotifierCompletes_OnlyUnset(w) == flag[wslot[w]] = Unset

\* Whether SsrWriteSignalNotifier::notify completes the slot.
NotifierCompletes(w) == TRUE

\* The WriteGuard is dropped: SsrWriteSignalNotifier::notify runs.
notifier_notify(w) ==
    /\ wpc[w] = "guard"
    /\ wpc' = [wpc EXCEPT ![w] = "held"]
    /\ IF NotifierCompletes(w) THEN complete(wslot[w]) ELSE UNCHANGED <<flag, unseen>>
    /\ UNCHANGED <<readyVars, ctxVars, registry, txcount, mode, armed, value, wslot, spc, sslot, result,
                   notifyVars, obsVars>>

\* update_untracked through Write::try_write_untracked: the plain guard of
\* the inner ArcWriteSignal, no notifier attached.
try_write_untracked(w, v) ==
    /\ wpc[w] \in {"fresh", "held"}
    /\ value' = [value EXCEPT ![wslot[w]] = v]
    /\ quiet' = [quiet EXCEPT ![wslot[w]] = TRUE]
    /\ UNCHANGED <<readyVars, ctxVars, registry, txcount, mode, flag, armed, writerVars, subVars, notifyVars,
                   written, inner, lapse, seen, alone>>

\* Notify::notify called on the SsrWriteSignal itself.
signal_notify(w) ==
    /\ wpc[w] \in {"fresh", "held"}
    /\ complete(wslot[w])
    /\ lapse' = [lapse EXCEPT ![wslot[w]] = @ \/ wpc[w] = "fresh"]
    /\ UNCHANGED <<readyVars, ctxVars, registry, txcount, mode, armed, value, writerVars, spc, sslot, result,
                   notifyVars, written, inner, quiet, seen, alone>>

\* Variant: the drop completes the slot whatever its mode.
DropCompletes_Always(s) == mode[s] # "none"

\* Drop for ReadySender: complete() unless the slot is armed for manual
\* completion.
DropCompletes(s) == ~armed[s]

\* The handle goes out of use: Drop for ReadySender runs first ...
drop_ready_sender(w) ==
    /\ wpc[w] \in {"fresh", "held"}
    /\ wpc' = [wpc EXCEPT ![w] = "dropping"]
    /\ IF DropCompletes(wslot[w]) THEN complete(wslot[w]) ELSE UNCHANGED <<flag, unseen>>
    /\ lapse' = [lapse EXCEPT ![wslot[w]] = @ \/ wpc[w] = "fresh"]
    /\ UNCHANGED <<readyVars, ctxVars, registry, txcount, mode, armed, value, wslot, spc, sslot, result,
                   notifyVars, written, inner, quiet, seen, alone>>

\* ... and then its fields: the cloned Sender goes away, waking nobody.
drop_sender(w) ==
    /\ wpc[w] = "dropping"
    /\ wpc' = [wpc EXCEPT ![w] = "dropped"]
    /\ txcount' = [txcount EXCEPT ![wslot[w]] = @ - 1]
    /\ UNCHANGED <<readyVars, ctxVars, registry, slotVars, wslot, subVars, notifyVars, obsVars>>

\* Variant: the bare cell is written and the slot completed, as a write
\* handle would do.
inner_write_only_Completes(s, v) ==
    /\ mode[s] # "none"
    /\ value' = [value EXCEPT ![s] = v]
    /\ inner' = [inner EXCEPT ![s] = TRUE]
    /\ complete(s)
    /\ UNCHANGED <<readyVars, ctxVars, registry, txcount, mode, armed, writerVars, spc, sslot, result,
                   notifyVars, written, quiet, lapse, seen, alone>>

\* A write through SsrSignalResource::inner_write_only: the bare cell.
inner_write_only(s, v) ==
    /\ mode[s] # "none"
    /\ value' = [value EXCEPT ![s] = v]
    /\ inner' = [inner EXCEPT ![s] = TRUE]
    /\ UNCHANGED <<readyVars, ctxVars, registry, txcount, mode, flag, armed, writerVars, subVars, notifyVars,
                   written, quiet, lapse, seen, alone>>

\* ---- CoReadyCoordinator::notify -----------------------------------------

\* Variant: one Vec shared by all coordinators.
Registered_Global == registry \o outer

\* `self.inner.lock()`: the Vec of the coordinator notify() is called on.
Registered == registry

\* Variant: the iteration ends after the first CoReady.
NotifyAdvance_FirstOnly == npc' = "idle" /\ nidx' = 0

\* Move on to the next CoReady of the Vec, or release the mutex.
NotifyAdvance ==
    IF nidx < Len(Registered)
    THEN npc' = "check" /\ nidx' = nidx + 1
    ELSE npc' = "idle" /\ nidx' = 0

\* notify() is called: the mutex is taken and the iteration starts.
notify_begin ==
    /\ ~disposed
    /\ npc = "idle"
    /\ notified' = TRUE
    /\ IF Registered = <<>>
       THEN npc' = "idle" /\ nidx' = 0
       ELSE npc' = "check" /\ nidx' = 1
    /\ UNCHANGED <<readyVars, ctxVars, registry, txcount, slotVars, writerVars, subVars, obsVars>>

\* Variant: the test of notify is inverted.
NotifyPrimes_Inverted(s) == flag[s] = Completed

\* Variant: the sender count is tested by notify, once, at the time of the
\* call.
NotifyPrimes_NoSenders(s) == flag[s] # Completed /\ sender_count(s) = 1

\* Variant: notify sends Some(false) to every slot without testing it.
NotifyPrimes_Always(s) == mode[s] # "none"

\* The test made on each CoReady before priming it.
NotifyPrimes(s) == flag[s] # Completed

\* `if *ready.inner.sender.borrow() != Some(true)`
notify_check ==
    /\ npc = "check"
    /\ IF NotifyPrimes(Registered[nidx])
       THEN npc' = "send" /\ nidx' = nidx
       ELSE NotifyAdvance
    /\ UNCHANGED <<readyVars, ctxVars, registry, txcount, slotVars, writerVars, subVars, notified, obsVars>>

\* `let _ = ready.inner.sender.send(Some(false))`
notify_send ==
    /\ npc = "send"
    /\ flag' = FlagAfterSend(Registered[nidx], Primed)
    /\ unseen' = UnseenAfterSend(Registered[nidx])
    /\ NotifyAdvance
    /\ UNCHANGED <<readyVars, ctxVars, registry, txcount, mode, armed, value, writerVars, spc, sslot, result,
                   notified, obsVars>>

\* ---- the non-coordinated Ready ------------------------------------------

\* Variant: the channel of a Ready starts like that of a CoReady.
ReadyInitialFlag_Unset == Unset

\* Ready::new: `channel(Some(false))`.
ReadyInitialFlag == Primed

\* Subscriptions that own a receiver of the Ready's channel.
ReadyRx == {u \in Subs : rbacked[u] /\ rpc[u] \in {"subscribed", "suspended", "sleeping"}}

ReadySendStores == ReadyRx # {}

\* Subscriptions keeping the Ready alive.
ReadyHolders == {u \in ReadyRx : HoldsSlot(u)}

RtxAfterLeave(u) ==
    IF disposed /\ ReadyHolders = {u} THEN rtx - 1 ELSE rtx

\* The reactive owner is disposed: the pairs, their resources, the
\* coordinator with its Vec, the Ready and its handles are dropped.  A state
\* that no subscription holds loses its own Sender.
Owner_dispose ==
    /\ ~disposed
    /\ npc = "idle"
    /\ disposed' = TRUE
    /\ txcount' = [s \in Slots |->
                      IF mode[s] # "none" /\ SlotHolders(s) = {}
                      THEN txcount[s] - 1 ELSE txcount[s]]
    /\ rtx' = IF ReadyHolders = {} THEN rtx - 1 ELSE rtx
    /\ UNCHANGED <<provided, panicked, outer, registry, slotVars, writerVars, subVars, notifyVars,
                   obsVars, rflag, rpc, rbacked, runseen, rcalls>>

\* Ready::complete -> ReadyInner::complete
Ready_complete ==
    /\ ~disposed
    /\ rcalls < MaxComplete
    /\ rcalls' = rcalls + 1
    /\ rflag' = IF ReadySendStores THEN Completed ELSE rflag
    /\ runseen' = IF ReadySendStores
                  THEN [u \in Subs |-> runseen[u] \/ (u \in ReadyRx /\ rpc[u] = "suspended")]
                  ELSE runseen
    /\ UNCHANGED <<coVars, rpc, rbacked, rtx>>

\* Ready::handle() followed by ReadyHandle::subscribe(): use_context finds
\* the Ready (backed) or does not.
ReadyHandle_subscribe(u, backed) ==
    /\ ~disposed
    /\ rpc[u] = "free"
    /\ \A t \in Subs : t < u => rpc[t] # "free"
    /\ rpc' = [rpc EXCEPT ![u] = "subscribed"]
    /\ rbacked' = [rbacked EXCEPT ![u] = backed]
    /\ UNCHANGED <<coVars, rflag, runseen, rcalls, rtx>>

\* Variant: a subscription waits on a channel whether or not it has one.
WaitsOnChannel_Always(u) == u \in Subs

\* `if let Some(inner) = self.inner.take()`
WaitsOnChannel(u) == rbacked[u]

\* Variant: any set flag counts as ready.
ReadyWaitPredicate_AnySome == rflag # Unset

\* The closure handed to wait_for by ReadySubscriptionInner::wait_inner.
ReadyWaitPredicate == rflag = Completed

\* ReadySubscription::wait is polled for the first time.
ReadySubscription_wait(u) ==
    /\ rpc[u] = "subscribed"
    /\ rpc' = [rpc EXCEPT ![u] =
           IF ~WaitsOnChannel(u) THEN "done"
           ELSE IF ReadyWaitPredicate THEN "sleeping" ELSE "suspended"]
    /\ runseen' = [runseen EXCEPT ![u] = FALSE]
    /\ UNCHANGED <<coVars, rflag, rbacked, rcalls, rtx>>

\* wait_for is woken by a new version of the channel value.
Ready_wait_inner(u) ==
    /\ rpc[u] = "suspended"
    /\ runseen[u]
    /\ rpc' = [rpc EXCEPT ![u] = IF ReadyWaitPredicate THEN "sleeping" ELSE "suspended"]
    /\ runseen' = [runseen EXCEPT ![u] = FALSE]
    /\ UNCHANGED <<coVars, rflag, rbacked, rcalls, rtx>>

\* The zero-duration sleep elapses and wait() returns.
Ready_sleep(u) ==
    /\ rpc[u] = "sleeping"
    /\ rpc' = [rpc EXCEPT ![u] = "done"]
    /\ rtx' = RtxAfterLeave(u)
    /\ UNCHANGED <<coVars, rflag, rbacked, runseen, rcalls>>

\* The subscription is dropped before its wait has returned.
ReadySubscription_drop(u) ==
    /\ rpc[u] \in {"subscribed", "suspended", "sleeping"}
    /\ rpc' = [rpc EXCEPT ![u] = "dropped"]
    /\ runseen' = [runseen EXCEPT ![u] = FALSE]
    /\ rtx' = RtxAfterLeave(u)
    /\ UNCHANGED <<coVars, rflag, rbacked, rcalls>>

\* ---- specification ------------------------------------------------------

Init ==
    /\ provided = FALSE
    /\ panicked = FALSE
    /\ disposed = FALSE
    /\ outer = <<>>
    /\ registry = <<>>
    /\ txcount = [s \in Slots |-> 0]
    /\ mode = [s \in Slots |-> "none"]
    /\ flag = [s \in Slots |-> Unset]
    /\ armed = [s \in Slots |-> FALSE]
    /\ value = [s \in Slots |-> DefaultValue]
    /\ wpc = [w \in Writers |-> "free"]
    /\ wslot = [w \in Writers |-> 1]
    /\ spc = [u \in Subs |-> "free"]
    /\ sslot = [u \in Subs |-> 1]
    /\ unseen = [u \in Subs |-> FALSE]
    /\ result = [u \in Subs |-> DefaultValue]
    /\ npc = "idle"
    /\ nidx = 0
    /\ notified = FALSE
    /\ written = [s \in Slots |-> {}]
    /\ inner = [s \in Slots |-> FALSE]
    /\ quiet = [s \in Slots |-> FALSE]
    /\ lapse = [s \in Slots |-> FALSE]
    /\ seen = [u \in Subs |-> DefaultValue]
    /\ alone = [u \in Subs |-> FALSE]
    /\ rflag = ReadyInitialFlag
    /\ rpc = [u \in Subs |-> "free"]
    /\ rbacked = [u \in Subs |-> FALSE]
    /\ runseen = [u \in Subs |-> FALSE]
    /\ rcalls = 0
    /\ rtx = 1

\* The handles and subscriptions of both kinds share one budget: each
\* specification admits a new one while Budget holds.
ReadySubscriptions == Cardinality({u \in Subs : rpc[u] # "free"})

Budget == Objects + ReadySubscriptions < MaxObjects

\* The budget of a specification with one more producer.
Room == Objects + ReadySubscriptions <= MaxObjects

\* One signal-resource pair, its write handles and its read accessors,
\* inside one SyncSsrSignal.
Pair == CHOOSE s \in Slots : \A t \in Slots : s <= t

Next ==
    \/ SyncSsrSignal_provide
    \/ \E manual \in BOOLEAN : SsrSignalResource_new(Pair, manual)
    \/ \E u \in Subs : Budget /\ subscribe(u, Pair)
    \/ \E u \in Subs : wait_inner(u)
    \/ \E u \in Subs : fetcher_read(u)
    \/ \E u \in Subs : drop_subscription(u)
    \/ \E w \in Writers : Budget /\ write_only(w, Pair)
    \/ \E w \in Writers, v \in Values : try_write(w, v)
    \/ \E w \in Writers : notifier_notify(w)
    \/ \E w \in Writers, v \in Values : try_write_untracked(w, v)
    \/ \E w \in Writers : signal_notify(w)
    \/ \E w \in Writers : drop_ready_sender(w)
    \/ \E w \in Writers : drop_sender(w)
    \/ notify_begin
    \/ notify_check
    \/ notify_send

Spec == Init /\ [][Next]_vars

\* The same pair when the application also writes the bare cell.
NextInner == Next \/ \E v \in Values : inner_write_only(Pair, v)

SpecInner == Init /\ [][NextInner]_vars

\* A pair written through tracked write handles and through the bare cell.
NextCell ==
    \/ SyncSsrSignal_provide
    \/ \E manual \in BOOLEAN : SsrSignalResource_new(Pair, manual)
    \/ \E u \in Subs : Budget /\ subscribe(u, Pair)
    \/ \E u \in Subs : wait_inner(u)
    \/ \E u \in Subs : fetcher_read(u)
    \/ \E w \in Writers : Budget /\ write_only(w, Pair)
    \/ \E w \in Writers, v \in Values : try_write(w, v)
    \/ \E w \in Writers : notifier_notify(w)
    \/ \E w \in Writers : drop_ready_sender(w)
    \/ \E w \in Writers : drop_sender(w)
    \/ notify_begin
    \/ notify_check
    \/ notify_send
    \/ \E v \in Values : inner_write_only(Pair, v)

SpecCell == Init /\ [][NextCell]_vars

\* A pair for which write_only() is never called.
NextNoWriter ==
    \/ SyncSsrSignal_provide
    \/ \E manual \in BOOLEAN : SsrSignalResource_new(Pair, manual)
    \/ \E u \in Subs : Budget /\ subscribe(u, Pair)
    \/ \E u \in Subs : wait_inner(u)
    \/ \E u \in Subs : fetcher_read(u)
    \/ \E u \in Subs : drop_subscription(u)
    \/ notify_begin
    \/ notify_check
    \/ notify_send

SpecNoWriter == Init /\ [][NextNoWriter]_vars

\* Several pairs registered with the coordinator of one SyncSsrSignal.  The
\* handles signal without writing (Notify::notify, or their drop), and no
\* accessor is abandoned.
NextGroup ==
    \/ SyncSsrSignal_provide
    \/ \E s \in Slots, manual \in BOOLEAN : SsrSignalResource_new(s, manual)
    \/ \E u \in Subs, s \in Slots : Budget /\ subscribe(u, s)
    \/ \E u \in Subs : wait_inner(u)
    \/ \E u \in Subs : fetcher_read(u)
    \/ \E w \in Writers, s \in Slots : Budget /\ write_only(w, s)
    \/ \E w \in Writers : signal_notify(w)
    \/ \E w \in Writers : drop_ready_sender(w)
    \/ \E w \in Writers : drop_sender(w)
    \/ notify_begin
    \/ notify_check
    \/ notify_send

SpecGroup == Init /\ [][NextGroup]_vars

\* A Ready provided by SyncSsr, its handles and their subscriptions.
NextReady ==
    \/ Ready_complete
    \/ \E u \in Subs, backed \in BOOLEAN : ReadyHandle_subscribe(u, backed)
    \/ \E u \in Subs : ReadySubscription_wait(u)
    \/ \E u \in Subs : Ready_wait_inner(u)
    \/ \E u \in Subs : Ready_sleep(u)
    \/ \E u \in Subs : ReadySubscription_drop(u)

SpecReady == Init /\ [][NextReady]_vars

\* A coordinated pair and a non-coordinated Ready side by side, as in an
\* application that nests SyncSsrSignal inside SyncSsr.
NextWait ==
    \/ SyncSsrSignal_provide
    \/ \E manual \in BOOLEAN : SsrSignalResource_new(Pair, manual)
    \/ \E u \in Subs : Budget /\ subscribe(u, Pair)
    \/ \E u \in Subs : wait_inner(u)
    \/ \E w \in Writers : Budget /\ write_only(w, Pair)
    \/ \E w \in Writers : signal_notify(w)
    \/ \E w \in Writers : drop_ready_sender(w)
    \/ \E w \in Writers : drop_sender(w)
    \/ notify_begin
    \/ notify_check
    \/ notify_send
    \/ Ready_complete
    \/ \E u \in Subs, backed \in BOOLEAN : Budget /\ ReadyHandle_subscribe(u, backed)
    \/ \E u \in Subs : ReadySubscription_wait(u)
    \/ \E u \in Subs : Ready_wait_inner(u)
    \/ \E u \in Subs : Ready_sleep(u)

SpecWait == Init /\ [][NextWait]_vars

\* A coordinated pair and a Ready whose owner may be disposed while
\* subscriptions and write handles are still in flight.
NextDispose ==
    \/ SyncSsrSignal_provide
    \/ \E manual \in BOOLEAN : SsrSignalResource_new(Pair, manual)
    \/ \E u \in Subs : Budget /\ subscribe(u, Pair)
    \/ \E u \in Subs : wait_inner(u)
    \/ \E u \in Subs : drop_subscription(u)
    \/ \E w \in Writers : Budget /\ write_only(w, Pair)
    \/ \E w \in Writers : drop_ready_sender(w)
    \/ \E w \in Writers : drop_sender(w)
    \/ notify_begin
    \/ notify_check
    \/ notify_send
    \/ Ready_complete
    \/ \E u \in Subs, backed \in BOOLEAN : Budget /\ ReadyHandle_subscribe(u, backed)
    \/ \E u \in Subs : ReadySubscription_wait(u)
    \/ \E u \in Subs : Ready_wait_inner(u)
    \/ \E u \in Subs : Ready_sleep(u)
    \/ \E u \in Subs : ReadySubscription_drop(u)
    \/ Owner_dispose

SpecDispose == Init /\ [][NextDispose]_vars

\* A boundary nested in another one: states are built inside its Provider
\* or outside of it, and notify() is called on the nested coordinator.
NextNested ==
    \/ SyncSsrSignal_provide
    \/ \E s \in Slots, manual \in BOOLEAN : provided /\ SsrSignalResource_new(s, manual)
    \/ \E s \in Slots, manual \in BOOLEAN : SsrSignalResource_new_outer(s, manual)
    \/ \E u \in Subs, s \in Slots : Budget /\ subscribe(u, s)
    \/ \E u \in Subs : wait_inner(u)
    \/ \E w \in Writers, s \in Slots : Budget /\ write_only(w, s)
    \/ \E w \in Writers : drop_ready_sender(w)
    \/ \E w \in Writers : drop_sender(w)
    \/ notify_begin
    \/ notify_check
    \/ notify_send

SpecNested == Init /\ [][NextNested]_vars

\* One pair with several producers: write handles acquired at several
\* places of the application, used for notifying writes or dropped.
NextProducers ==
    \/ SyncSsrSignal_provide
    \/ \E manual \in BOOLEAN : SsrSignalResource_new(Pair, manual)
    \/ \E u \in Subs : Room /\ subscribe(u, Pair)
    \/ \E u \in Subs : wait_inner(u)
    \/ \E u \in Subs : fetcher_read(u)
    \/ \E w \in Writers : Room /\ write_only(w, Pair)
    \/ \E w \in Writers, v \in Values : try_write(w, v)
    \/ \E w \in Writers : notifier_notify(w)
    \/ \E w \in Writers : drop_ready_sender(w)
    \/ \E w \in Writers : drop_sender(w)
    \/ notify_begin
    \/ notify_check
    \/ notify_send

SpecProducers == Init /\ [][NextProducers]_vars

\* A group whose first pair is built inside SyncSsrSignal before its single
\* notify() and whose other pairs are built after that call has fired.
NextLate ==
    \/ SyncSsrSignal_provide
    \/ \E manual \in BOOLEAN : ~notified /\ SsrSignalResource_new(Pair, manual)
    \/ \E s \in Slots \ {Pair}, manual \in BOOLEAN : notified /\ SsrSignalResource_new(s, manual)
    \/ \E u \in Subs, s \in Slots : Budget /\ subscribe(u, s)
    \/ \E u \in Subs : wait_inner(u)
    \/ \E u \in Subs : fetcher_read(u)
    \/ \E w \in Writers, s \in Slots : Budget /\ write_only(w, s)
    \/ \E w \in Writers : signal_notify(w)
    \/ \E w \in Writers : drop_ready_sender(w)
    \/ \E w \in Writers : drop_sender(w)
    \/ ~notified /\ notify_begin
    \/ notify_check
    \/ notify_send

SpecLate == Init /\ [][NextLate]_vars

\* Scheduling: the executor polls every future that has been woken, timers
\* elapse, and straight-line code (the loop of notify(), the drop of a write
\* guard or of a sender) runs to its end.  Nothing obliges the application
\* to create, use or drop anything.
FairSpec ==
    /\ Spec
    /\ \A u \in Subs : WF_vars(wait_inner(u)) /\ WF_vars(fetcher_read(u))
    /\ \A w \in Writers : WF_vars(notifier_notify(w)) /\ WF_vars(drop_sender(w))
    /\ WF_vars(notify_check)
    /\ WF_vars(notify_send)

FairSpecNoWriter ==
    /\ SpecNoWriter
    /\ \A u \in Subs : WF_vars(wait_inner(u)) /\ WF_vars(fetcher_read(u))
    /\ WF_vars(notify_check)
    /\ WF_vars(notify_send)

FairSpecReady ==
    /\ SpecReady
    /\ \A u \in Subs : WF_vars(Ready_wait_inner(u)) /\ WF_vars(Ready_sleep(u))

\* ---------------------------------------------------------------------
\* Properties
\* ---------------------------------------------------------------------

\* A reader of slot s has been handed its value.
Released(u) == spc[u] \in {"resolved", "done"}

\* Every handle of s was acquired before notify() began and none of them
\* completed the slot without mutating the cell.
EarlyWriters(s) == Acquired(s) # {} /\ ~lapse[s]

\* C1: in a standard-mode pair whose write handle was acquired before the
\* coordinator's notify() and is held until it sets a value, the reader does
\* not resolve before the set and returns a value set through the handle,
\* never the initial value.
C1_EarlyWriterDeliversValue ==
    \A u \in Subs :
        LET s == sslot[u] IN
        (mode[s] = "std" /\ EarlyWriters(s) /\ ~Tainted(s) /\ Released(u))
        => /\ written[s] # {}
           /\ spc[u] = "done" => result[u] \in written[s]

C1_Witness ==
    \E u \in Subs :
        LET s == sslot[u] IN
        /\ mode[s] = "std" /\ EarlyWriters(s) /\ ~Tainted(s)
        /\ notified /\ npc = "idle"
        /\ spc[u] = "done"
        /\ result[u] # DefaultValue

\* The notify() loop is about to examine slot s.
NotifyReaches(s) == npc = "check" /\ registry[nidx] = s

\* C2: in a standard-mode pair for which write_only() is never called, once
\* the coordinator runs notify() the waiting reader eventually resolves with
\* the initial value.
C2_NoWriterResolvesInitial ==
    \A u \in Subs :
        (/\ spc[u] = "waiting"
         /\ mode[sslot[u]] = "std"
         /\ NotifyReaches(sslot[u]))
        ~> (\/ spc[u] = "done" /\ result[u] = DefaultValue
            \/ spc[u] = "dropped")

C2_Witness ==
    \E u \in Subs :
        LET s == sslot[u] IN
        /\ mode[s] = "std" /\ Acquired(s) = {} /\ ~Tainted(s)
        /\ flag[s] = Primed
        /\ spc[u] = "done"
        /\ result[u] = DefaultValue

\* C3: while a write handle acquired before notify() is alive and has neither
\* mutated the cell nor been dropped, no reader of its slot resolves, however
\* many times notify() has run.
C3_HeldHandleBlocksReader ==
    \A s \in Slots :
        (/\ ~lapse[s]
         /\ written[s] = {}
         /\ \E w \in Acquired(s) : wpc[w] = "fresh")
        => \A u \in Subs : sslot[u] = s => ~Released(u)

C3_Witness ==
    \E s \in Slots, u \in Subs :
        /\ ~lapse[s] /\ written[s] = {}
        /\ \E w \in Acquired(s) : wpc[w] = "fresh"
        /\ notified /\ npc = "idle"
        /\ flag[s] = Primed
        /\ sslot[u] = s /\ spc[u] = "waiting" /\ ~unseen[u]

\* The reader's wait was satisfied before any handle of its slot existed.
LateWriterCase(u) ==
    /\ spc[u] = "done"
    /\ alone[u]
    /\ mode[sslot[u]] = "std"
    /\ ~Tainted(sslot[u])

\* Every step a handle of s is about to take can be taken.
WriterNeverBlocks(s) ==
    \A w \in Acquired(s) :
        /\ wpc[w] \in {"fresh", "held"} =>
              /\ ENABLED drop_ready_sender(w)
              /\ \A v \in Values : ENABLED try_write(w, v)
        /\ wpc[w] = "guard" => ENABLED notifier_notify(w)
        /\ wpc[w] = "dropping" => ENABLED drop_sender(w)

C5_DropReleasesReader ==
    \A u \in Subs : \A w \in Writers :
        (/\ wpc[w] = "dropping"
         /\ wslot[w] = sslot[u]
         /\ mode[sslot[u]] = "std"
         /\ written[sslot[u]] = {}
         /\ flag[sslot[u]] = Completed
         /\ spc[u] = "waiting")
        ~> spc[u] \in {"done", "dropped"}

\* Handle w finishes a mutation made through a notifying write guard.
FinishesTracked(w) == wpc[w] = "guard" /\ wpc'[w] = "held"

\* The cell of s is mutated through a handle's untracked write.
FirstUntracked(s) == ~quiet[s] /\ quiet'[s]

\* The step leaves slot s completed and its waiting readers woken.
CompletionSent(s) ==
    SendStores(s)
    => /\ flag'[s] = Completed
       /\ \A u \in Subs : (sslot[u] = s /\ spc[u] = "waiting") => unseen'[u]

C7_ReturnsValueAtRelease ==
    \A u \in Subs : spc[u] = "done" => result[u] = seen[u]

\* C7, amended: the value the reader returns is the value the cell holds when
\* the accessor reads it again after its wait was satisfied, not a value
\* captured earlier.
C7_ReturnsValueAtRead ==
    [][\A u \in Subs :
          (spc[u] = "resolved" /\ spc'[u] = "done") => result'[u] = value[sslot[u]]]_vars

C7_Witness ==
    \E u \in Subs :
        /\ spc[u] = "done"
        /\ result[u] # DefaultValue
        /\ result[u] # seen[u]

\* C8: a wait on a Ready never resolves before complete() has been called,
\* and a wait suspended on it resolves once complete() is called.
C8_WaitFollowsComplete ==
    /\ [](\A u \in Subs :
            (rbacked[u] /\ rpc[u] \in {"sleeping", "done"})
            => (rcalls > 0 /\ rflag = Completed))
    /\ \A u \in Subs :
          (rbacked[u] /\ rpc[u] = "suspended" /\ rflag = Completed)
          ~> rpc[u] \in {"done", "dropped"}

C8_Witness ==
    \E u \in Subs :
        /\ rbacked[u]
        /\ rpc[u] = "suspended"
        /\ runseen[u]
        /\ rflag = Completed

\* C9: once complete() has run on a ReadyState its flag is Completed, whether
\* or not a subscription was alive when it ran.
C9_CompleteSticks == rcalls > 0 => rflag = Completed

\* C10: the wait of a subscription that has no backing Ready resolves on its
\* first poll and never suspends, whatever the state of any channel.
C10_NoBackingNeverWaits ==
    \A u \in Subs :
        (rpc[u] # "free" /\ ~rbacked[u])
        => /\ rpc[u] \in {"subscribed", "done", "dropped"}
           /\ rpc[u] = "subscribed" => ENABLED ReadySubscription_wait(u)

C10_Witness ==
    \E u \in Subs :
        /\ ~rbacked[u]
        /\ rpc[u] = "done"
        /\ rflag # Completed
        /\ \E o \in Subs : rbacked[o] /\ rpc[o] = "suspended"

\* Handle w runs ReadyInner::complete in this step.
CompletesNow(w) ==
    \/ notifier_notify(w)
    \/ signal_notify(w)
    \/ (DropCompletes(wslot[w]) /\ drop_ready_sender(w))

\* Every completing call handle w may make next can be made.
CompleteNeverFails(w) ==
    /\ wpc[w] \in {"fresh", "held"} =>
          (ENABLED signal_notify(w) /\ ENABLED drop_ready_sender(w))
    /\ wpc[w] = "guard" => ENABLED notifier_notify(w)

\* C11: completing a slot that is already Completed, by a further complete()
\* or by the drop of a further sender, leaves the flag Completed and never
\* fails.
C11_CompleteIdempotent ==
    /\ [](\A w \in Writers : flag[wslot[w]] = Completed => CompleteNeverFails(w))
    /\ [][\A w \in Writers :
            (flag[wslot[w]] = Completed /\ CompletesNow(w))
            => flag'[wslot[w]] = Completed]_vars

C11_Witness ==
    \E w \in Writers :
        /\ mode[wslot[w]] = "std"
        /\ written[wslot[w]] # {}
        /\ wpc[w] = "dropped"
        /\ flag[wslot[w]] = Completed
        /\ \E u \in Subs : sslot[u] = wslot[w] /\ spc[u] = "waiting"

\* C12: under any interleaving of complete(), notify(), sender acquisition
\* and sender drop, a slot whose flag is Completed is never afterwards Primed
\* or Unset.
C12_CompletedNeverRegresses ==
    [][\A s \in Slots : flag[s] = Completed => flag'[s] = Completed]_vars

\* Slot b is left as it was by the step: its flag, its live senders, and the
\* position and pending wake-up of each of its waiters.
SlotUntouched(b) ==
    /\ flag'[b] = flag[b]
    /\ {w \in Writers : wslot'[w] = b /\ wpc'[w] \in LiveTx} = LiveSenders(b)
    /\ \A u \in Subs : sslot[u] = b => (spc'[u] = spc[u] /\ unseen'[u] = unseen[u])

\* C13: completing a sender of slot A changes neither the flag nor the
\* live-sender count of any other slot B of the same coordinator, and
\* releases no waiter of slot B.
C13_CompletionIsLocal ==
    [][\A w \in Writers :
          CompletesNow(w) => \A b \in Slots \ {wslot[w]} : SlotUntouched(b)]_vars

C13_Witness ==
    \E a \in Slots, b \in Slots, u \in Subs, w \in Writers :
        /\ a # b
        /\ mode[a] # "none" /\ mode[b] # "none"
        /\ mode[a] = "std" /\ wslot[w] = a /\ wpc[w] \in {"dropping", "dropped"}
        /\ sslot[u] = b /\ spc[u] = "waiting" /\ ~unseen[u]
        /\ flag[b] # Completed

\* Nothing has been created and nothing registered with a coordinator.
NothingBuilt == Created = {} /\ registry = <<>>

\* C14: constructing a pair when no CoReadyCoordinator is in context panics
\* at once, and no slot is created or registered.
C14_MissingCoordinatorPanics ==
    /\ []((~provided \/ panicked) => NothingBuilt)
    /\ [][(~provided /\ \E s \in Slots, manual \in BOOLEAN : SsrSignalResource_new(s, manual))
          => (panicked' /\ mode' = mode /\ registry' = registry)]_vars

C14_Witness == panicked /\ ~provided /\ NothingBuilt

\* An explicit complete(): a notifying write or Notify::notify on a handle.
ExplicitComplete(s) ==
    \E w \in Writers : wslot[w] = s /\ (notifier_notify(w) \/ signal_notify(w))

\* C15: on a manual-complete slot the drop of a write handle leaves the flag
\* and the waiters as they are; the flag becomes Completed, and a waiter is
\* released, only through an explicit complete().
C15_ManualDropIsNoOp ==
    [][/\ \A w \in Writers :
            (mode[wslot[w]] = "manual" /\ drop_ready_sender(w))
            => (flag' = flag /\ unseen' = unseen /\ spc' = spc)
       /\ \A s \in Slots :
            (mode[s] = "manual" /\ flag[s] # Completed /\ flag'[s] = Completed)
            => ExplicitComplete(s)
       /\ \A u \in Subs :
            (mode[sslot[u]] = "manual" /\ spc[u] = "waiting" /\ spc'[u] = "resolved")
            => flag[sslot[u]] = Completed]_vars

C15_Witness ==
    \E w \in Writers, u \in Subs :
        /\ mode[wslot[w]] = "manual"
        /\ wpc[w] = "dropped"
        /\ sslot[u] = wslot[w] /\ spc[u] = "waiting" /\ ~unseen[u]
        /\ flag[wslot[w]] = Primed
        /\ notified /\ npc = "idle"

\* A waiter that has tested its predicate against the current flag and was
\* left suspended.
Suspended(u) == spc[u] = "waiting" /\ ~unseen[u]

\* C16: where no write handle is ever acquired, a waiter that has examined a
\* primed slot is not left suspended, in a manual-complete slot just as in a
\* standard one.
C16_UnarmedManualResolvesOnPrime ==
    \A u \in Subs :
        (Suspended(u) /\ Acquired(sslot[u]) = {}) => flag[sslot[u]] # Primed

\* The step in which notify() returns: the iteration over the registry ends.
NotifyReturns == npc # "idle" /\ npc' = "idle"

\* C17: when notify() returns, every slot registered before the call has
\* flag Primed or Completed, with or without a live subscription.
C17_NotifyPrimesEveryRegistered ==
    [][NotifyReturns =>
          \A i \in 1..Len(registry) : flag'[registry[i]] \in {Primed, Completed}]_vars

\* notify() has run to its end and every handle acquired from s is gone.
Settled(s) ==
    /\ notified /\ npc = "idle"
    /\ \A w \in Writers : wslot[w] = s => wpc[w] \in {"free", "dropped"}

\* C18: in a standard-mode slot that notify() has reached while a
\* subscription was alive, once notify() has returned and every acquired
\* handle has been used or dropped no reader is left suspended.
C18_NoReaderStranded ==
    \A u \in Subs :
        LET s == sslot[u] IN
        (mode[s] = "std" /\ flag[s] # Unset /\ Settled(s)) => ~Suspended(u)

\* wait() of coordinated subscription u returns in this step.
CoResolves(u) == spc[u] = "waiting" /\ spc'[u] = "resolved"

\* wait_for of non-coordinated subscription u returns in this step.
ReadyResolves(u) ==
    WaitsOnChannel(u) /\ rpc[u] \in {"subscribed", "suspended"} /\ rpc'[u] = "sleeping"

\* C19: a coordinated wait() returns only from a state where the flag is
\* Completed, or Primed with no live ReadySender; a non-coordinated wait on a
\* real state returns only from a state where the flag is Completed.
C19_ResolvesOnlyWhenAllowed ==
    [][/\ \A u \in Subs :
            CoResolves(u) =>
                \/ flag[sslot[u]] = Completed
                \/ (flag[sslot[u]] = Primed /\ LiveSenders(sslot[u]) = {})
       /\ \A u \in Subs : ReadyResolves(u) => rflag = Completed]_vars

C19_Witness ==
    /\ \E u \in Subs :
          /\ spc[u] = "resolved"
          /\ flag[sslot[u]] = Primed /\ Acquired(sslot[u]) = {}
    /\ \E r \in Subs :
          /\ rbacked[r] /\ rpc[r] \in {"sleeping", "done"}
          /\ rflag = Completed

\* notify() leaves its test of the slot at hand.
NotifyTests == npc = "check" /\ npc' # "check"

\* notify() leaves its send to the slot at hand.
NotifySends == npc = "send" /\ npc' # "send"

\* C20: notify() primes a slot that is not Completed whatever the number of
\* live senders; the number is read by each waiter whenever it tests its
\* predicate, so on a primed standard slot the waiter is released exactly
\* when no sender is live at that test, notify() having run or not.
C20_SendersCountedByWaiter ==
    [][/\ (NotifyTests /\ flag[registry[nidx]] # Completed) => npc' = "send"
       /\ (NotifySends /\ SendStores(registry[nidx]))
            => /\ flag'[registry[nidx]] = Primed
               /\ \A u \in Subs :
                    (sslot[u] = registry[nidx] /\ spc[u] = "waiting") => unseen'[u]
       /\ \A u \in Subs :
            (wait_inner(u) /\ flag[sslot[u]] = Primed /\ mode[sslot[u]] = "std")
            => (spc'[u] = "resolved" <=> LiveSenders(sslot[u]) = {})]_vars

C20_Witness ==
    \E u \in Subs :
        LET s == sslot[u] IN
        /\ mode[s] = "std" /\ notified /\ npc = "idle"
        /\ flag[s] = Primed /\ LiveSenders(s) # {}
        /\ Suspended(u)

\* C21: on a manual-complete slot a completion that a waiter has yet to
\* observe stays in the channel until that waiter has gone: no step, of a
\* concurrent notify() in particular, replaces it while the waiter waits.
C21_ManualCompletionNotHidden ==
    [][\A u \in Subs :
          (/\ mode[sslot[u]] = "manual"
           /\ spc[u] = "waiting"
           /\ flag[sslot[u]] = Completed)
          => (spc'[u] # "waiting" \/ flag'[sslot[u]] = Completed)]_vars

\* The fetcher of u reads the cell in this step.
FetcherReads(u) == spc[u] = "resolved" /\ spc'[u] = "done"

\* C22: where the cell is mutated through notifying writes only and no
\* handle completes the slot without one, a reader released on Completed
\* finds a value of such a write already in the cell, and returns one.
C22_MutateThenBroadcast ==
    [][\A u \in Subs :
          LET s == sslot[u] IN
          /\ (CoResolves(u) /\ flag[s] = Completed /\ ~Tainted(s) /\ ~lapse[s])
               => (written[s] # {} /\ value[s] \in written[s])
          /\ (FetcherReads(u) /\ ~Tainted(s) /\ written[s] # {})
               => result'[u] \in written[s]]_vars

C22_Witness ==
    \E u \in Subs :
        LET s == sslot[u] IN
        /\ ~Tainted(s) /\ ~lapse[s]
        /\ flag[s] = Completed
        /\ \E w \in LiveSenders(s) : wpc[w] = "held"
        /\ spc[u] = "done"
        /\ written[s] = {result[u]} /\ result[u] # DefaultValue

\* C23: on a standard slot with two or more live senders, a completion sent
\* by one of them reaches every waiter: the flag stays Completed for as long
\* as a subscription that was waiting when it was set is still waiting.
C23_OneCompletionReleasesAll ==
    [][\A u \in Subs :
          LET s == sslot[u] IN
          (/\ mode[s] = "std"
           /\ Cardinality(LiveSenders(s)) >= 2
           /\ spc[u] = "waiting"
           /\ flag[s] = Completed)
          => (spc'[u] # "waiting" \/ flag'[s] = Completed)]_vars

\* The subscriptions waiting on slot s.
Waiters(s) == {u \in Subs : sslot[u] = s /\ spc[u] = "waiting"}

\* C24: once the flag of a slot is Completed, each of the subscriptions
\* waiting on it gets to see it: while any of them has not yet observed the
\* new value the flag is still Completed after every step.
C24_CompletionReachesEveryWaiter ==
    [][\A s \in Slots :
          (flag[s] = Completed /\ Cardinality(Waiters(s)) >= 2)
          => \A u \in Waiters(s) :
                (unseen[u] /\ spc'[u] = "waiting") => flag'[s] = Completed]_vars

\* The slots registered after the single notify() of SpecLate has fired.
LateSlots == Created \ {Pair}

\* C25: a slot registered after notify() has fired is not primed by that
\* call: its flag is Unset until a sender completes it, its subscribers are
\* released on Completed only, and none is released while no sender has
\* been acquired from it.
C25_LateSlotNeverPrimed ==
    \A s \in LateSlots :
        /\ flag[s] \in {Unset, Completed}
        /\ \A u \in Subs : (sslot[u] = s /\ Released(u)) => flag[s] = Completed
        /\ Acquired(s) = {} => flag[s] = Unset

C25_Witness ==
    \E s \in LateSlots, u \in Subs :
        /\ mode[s] = "std"
        /\ Acquired(s) = {}
        /\ flag[Pair] = Primed
        /\ sslot[u] = s /\ Suspended(u)

\* C26: a further notify() finds nothing to change: its test passes over a
\* slot it reads as Completed, and its send leaves a Primed slot Primed and,
\* where no receiver exists, the flag as it is.
C26_PrimingIdempotent ==
    [][LET s == registry[nidx] IN
       /\ (NotifyTests /\ flag[s] = Completed) => (npc' # "send" /\ flag' = flag)
       /\ (NotifySends /\ flag[s] = Primed) => flag'[s] = Primed
       /\ (NotifySends /\ ~SendStores(s)) => flag' = flag]_vars

\* A later call is about to send to the slot an earlier call has primed.
C26_Witness ==
    /\ npc = "send"
    /\ flag[registry[nidx]] = Primed
    /\ Waiters(registry[nidx]) # {}

\* Handle w comes into being in this step.
Acquires(w) == wpc[w] = "free" /\ wpc'[w] = "fresh"

\* The next unused handle can be acquired from any existing slot, whatever
\* its flag and however many handles it has given out.
AcquireAlwaysPossible ==
    \A w \in Writers, s \in Created :
        (wpc[w] = "free" /\ \A x \in Writers : x < w => wpc[x] # "free")
        => ENABLED write_only(w, s)

\* C27: acquiring a sender leaves every flag as it is and is possible any
\* number of times on a slot; a flag becomes Completed only in a step that
\* is an explicit complete() or the drop of a sender of a standard slot.
C27_AcquireLeavesFlag ==
    /\ []AcquireAlwaysPossible
    /\ [][/\ \A w \in Writers : Acquires(w) => flag' = flag
          /\ \A s \in Slots :
               (flag[s] # Completed /\ flag'[s] = Completed)
               => \/ ExplicitComplete(s)
                  \/ \E w \in Writers :
                        wslot[w] = s /\ mode[s] = "std" /\ drop_ready_sender(w)]_vars

C27_Witness ==
    \E s \in Created : \E w \in LiveSenders(s) :
        /\ Cardinality(LiveSenders(s)) >= 2
        /\ wpc[w] = "fresh" /\ lapse[s]
        /\ flag[s] = Primed

Abandons(u) == spc[u] = "waiting" /\ spc'[u] = "dropped"

\* C29: dropping a subscription in mid-wait changes no flag and no sender
\* count, leaves every other subscription where it was and under the same
\* wait test, and leaves a channel that stores a later send exactly when
\* another subscription is still waiting on the slot.
C29_DropSubscriptionOnlyAbandons ==
    [][\A u \in Subs :
          Abandons(u) =>
              /\ flag' = flag /\ txcount' = txcount /\ value' = value
              /\ \A v \in Subs \ {u} : spc'[v] = spc[v] /\ unseen'[v] = unseen[v]
              /\ \A s \in Created :
                    /\ WaitPredicate(s)' <=> WaitPredicate(s)
                    /\ SendStores(s)' <=> (Waiters(s) \ {u} # {})]_vars

C29_Witness ==
    \E u \in Subs, v \in Subs :
        /\ u # v /\ sslot[u] = sslot[v]
        /\ spc[u] = "dropped"
        /\ spc[v] = "done"
        /\ flag[sslot[v]] = Primed

\* Ready::complete() is called in this step.
ReadyCompletes == rcalls' = rcalls + 1

\* Subscription u of slot s comes into being in this step.
Subscribes(u, s) == spc[u] = "free" /\ spc'[u] = "waiting" /\ sslot'[u] = s

C31_SendWithoutReceiverPanics ==
    [][/\ \A w \in Writers :
            (CompletesNow(w) /\ Waiters(wslot[w]) = {}) => panicked'
       /\ (NotifySends /\ Waiters(registry[nidx]) = {}) => panicked']_vars

\* C32: a live subscription never faces a closed channel: the channel of
\* the slot it waits on, or of the Ready it is backed by, has at least one
\* Sender left, whatever else has been dropped.
C32_ChannelOpenWhileSubscribed ==
    /\ \A u \in Subs : spc[u] = "waiting" => sender_count(sslot[u]) >= 1
    /\ \A u \in ReadyRx : rtx >= 1

C32_Witness ==
    /\ disposed
    /\ \E u \in Subs :
          /\ spc[u] = "waiting"
          /\ LiveSenders(sslot[u]) = {}
          /\ sender_count(sslot[u]) = 1
    /\ \E r \in ReadyRx : rpc[r] = "suspended" /\ rtx = 1

\* Slots registered with the enclosing coordinator.
OuterSlots == {outer[i] : i \in 1..Len(outer)}

\* A step of notify() on the nested coordinator.
NotifyStep == npc' # npc \/ nidx' # nidx

\* C34: notify() on a coordinator leaves alone what is registered with
\* another one: the flag of such a slot, and the state of the subscriptions
\* waiting on it, are the same after every step of the call.
C34_NotifyStaysInItsGroup ==
    [][NotifyStep =>
          \A s \in OuterSlots :
              /\ flag'[s] = flag[s]
              /\ \A u \in Subs :
                    sslot[u] = s => (spc'[u] = spc[u] /\ unseen'[u] = unseen[u])]_vars

C34_Witness ==
    /\ notified /\ npc = "idle"
    /\ \E t \in Slots :
          /\ t \notin OuterSlots
          /\ flag[t] = Primed
    /\ \E s \in OuterSlots :
          /\ flag[s] = Unset
          /\ \E u \in Subs : sslot[u] = s /\ spc[u] = "waiting" /\ ~unseen[u]

\* The step in which the state of slot s is built and registered.
Builds(s) == mode[s] = "none" /\ mode'[s] # "none"

\* C35 (as stated): a fresh state has flag Unset, be it a Ready on which
\* complete() was never called or a coordinated slot at registration.
C35_FreshIsUnset ==
    /\ [](rcalls = 0 => rflag = Unset)
    /\ [][\A s \in Slots : Builds(s) => flag'[s] = Unset]_vars

\* C35 (amended): a coordinated slot starts in Unset when it is registered;
\* a Ready starts in Primed and stays there until complete() is called.
C35_FreshCoReadyUnsetReadyPrimed ==
    /\ [](rcalls = 0 => rflag = Primed)
    /\ [][\A s \in Slots : Builds(s) => flag'[s] = Unset]_vars

C35_Witness ==
    /\ rcalls = 0 /\ rflag = Primed
    /\ \E u \in ReadyRx : rpc[u] = "suspended"
    /\ \E s \in Created :
          flag[s] = Unset /\ Acquired(s) = {} /\ ~notified

\* A step that writes the cell of slot s through inner_write_only().
InnerWrites(s) ==
    \/ inner'[s] # inner[s]
    \/ value'[s] # value[s] /\ wpc' = wpc

\* C36: a write through inner_write_only() changes the cell only: the flag,
\* the sender count and the arming of the slot, and the position and
\* pending-change mark of every subscription, are what they were.
C36_InnerWriteOnlyTouchesCell ==
    [][\A s \in Slots :
          InnerWrites(s) =>
              /\ flag' = flag
              /\ txcount' = txcount
              /\ armed' = armed
              /\ wpc' = wpc
              /\ spc' = spc
              /\ unseen' = unseen]_vars

C36_Witness ==
    \E s \in Created :
        /\ inner[s]
        /\ value[s] # DefaultValue
        /\ flag[s] = Unset
        /\ \E u \in Subs : sslot[u] = s /\ spc[u] = "waiting" /\ ~unseen[u]

\* C37: the Vec of a coordinator only grows, by pushes at its end, and a
\* call of notify() walks it from the first entry to the last registered,
\* one entry at a time, before it returns.
C37_RegistryGrowsAndNotifyCoversIt ==
    [][/\ Len(registry') >= Len(registry)
       /\ SubSeq(registry', 1, Len(registry)) = registry
       /\ (npc = "idle" /\ npc' # "idle") => nidx' = 1
       /\ (npc # "idle" /\ nidx' # nidx) =>
             \/ npc' = "check" /\ nidx' = nidx + 1
             \/ npc' = "idle" /\ nidx = Len(registry)]_vars

C37_Witness ==
    /\ Len(registry) = MaxSlots
    /\ npc = "send" /\ nidx = Len(registry)
    /\ flag[registry[1]] = Primed

\* The step in which the wait of u tests its predicate.
CoTests(u) == spc[u] = "waiting" /\ unseen[u] /\ ~unseen'[u] /\ spc'[u] # "dropped"

\* C38: wait() does not return in the step that finds its predicate
\* satisfied: a yield to the scheduler lies between the two, for the
\* subscription of a Ready and for that of a coordinated slot alike.
C38_YieldBeforeReturn ==
    [][\A u \in Subs :
          /\ (rbacked[u] /\ rpc[u] \in {"subscribed", "suspended"}) => rpc'[u] # "done"
          /\ CoTests(u) => spc'[u] # "resolved"]_vars

====
